---------------------------- MODULE Spec2Model ----------------------------
(***************************************************************************)
(* Model of morpheus/_lib/include/morpheus/types.hpp.                      *)
(*                                                                         *)
(* The header declares five aliases and nothing else:                      *)
(*   TensorIndex = cudf::size_type                                         *)
(*   RankType    = int                                                     *)
(*   ShapeType   = std::vector<TensorIndex>                                *)
(*   RangeType   = std::pair<TensorIndex, TensorIndex>                     *)
(*   TensorMap   = std::map<std::string, TensorObject>                     *)
(* Every behaviour a value of one of these types has is the behaviour of   *)
(* the standard container the alias names.  The model therefore gives each *)
(* alias the operations of that container, with the semantics ISO C++      *)
(* fixes for them, and exercises them from a client that holds one value   *)
(* of each type.  Three specifications share the variables: SpecShape     *)
(* drives a ShapeType, SpecRange a pair of RangeType values, SpecMap a     *)
(* TensorMap.                                                              *)
(*                                                                         *)
(* The 32-bit width of cudf::size_type is scaled down to SizeTypeBits bits *)
(* so that the whole index type can be enumerated; all arithmetic is done  *)
(* modulo 2^width exactly as for the real width.                           *)
(***************************************************************************)
EXTENDS Integers, Sequences, FiniteSets

VARIABLES shape,    \* the ShapeType value
          range,    \* a RangeType value
          other,    \* a second RangeType value, compared with range
          tmap,     \* the TensorMap value: its entries in iteration order
          order,    \* history: the entries in order of first insertion
          lastOp,   \* name of the operation that produced this state
          args,     \* the arguments the call site passed to that operation
          res       \* the boolean that operation returned (FALSE if none)

vars == <<shape, range, other, tmap, order, lastOp, args, res>>

(* ------------------------------ bounds -------------------------------- *)

\* Scaled width, in bits, of cudf::size_type (int32_t in cudf).
SizeTypeBits == 2

\* Longest ShapeType the client builds.
MaxLen == 3

\* Most entries the client puts into the TensorMap.
MaxEntries == 3

(* ---------------------------- TensorIndex ----------------------------- *)

Pow2(n) == 2 ^ n

\* cudf::size_type: a signed two's-complement integer of SizeTypeBits bits.
CudfSizeType == (0 - Pow2(SizeTypeBits - 1)) .. (Pow2(SizeTypeBits - 1) - 1)

\* A narrower index type, as if TensorIndex were declared one bit short.
NarrowBits == SizeTypeBits - 1

\* using TensorIndex = cudf::size_type;  the alias takes the width over.
TensorIndexBits == SizeTypeBits

TensorIndexMin == 0 - Pow2(TensorIndexBits - 1)

TensorIndexMax == Pow2(TensorIndexBits - 1) - 1

TensorIndex == TensorIndexMin .. TensorIndexMax

\* Integers a call site may hold in a wider type (twice the index range).
WideInt == (0 - Pow2(SizeTypeBits)) .. (Pow2(SizeTypeBits) - 1)

\* Conversion to an unsigned index of the same width.
ToUnsignedIndex(x) == x % Pow2(TensorIndexBits)

\* Conversion of an integer to TensorIndex: reduction modulo 2^width into
\* the signed range.
ToTensorIndex(x) ==
    LET r == x % Pow2(TensorIndexBits)
    IN  IF r >= Pow2(TensorIndexBits - 1) THEN r - Pow2(TensorIndexBits) ELSE r

\* Conversion of an integer to cudf::size_type.
ToSizeType(x) ==
    LET r == x % Pow2(SizeTypeBits)
    IN  IF r >= Pow2(SizeTypeBits - 1) THEN r - Pow2(SizeTypeBits) ELSE r

(* ------------------- ShapeType = std::vector<TensorIndex> ------------- *)

\* All sequences over S of length at most n.
SeqUpTo(S, n) == UNION {[1 .. k -> S] : k \in 0 .. n}

ShapeType == SeqUpTo(TensorIndex, MaxLen)

\* push_front: the element goes before the held ones.
VecPushFront(s, v) == <<ToTensorIndex(v)>> \o s

\* vector::push_back(v): v, converted to the element type, goes after the
\* held elements.
VecPushBack(s, v) == Append(s, ToTensorIndex(v))

\* vector::pop_back().
VecPopBack(s) == SubSeq(s, 1, Len(s) - 1)

\* vector::resize(n): keeps the first n elements, or appends value-initialised
\* (zero) elements up to n.
VecResize(s, n) ==
    IF n <= Len(s) THEN SubSeq(s, 1, n)
    ELSE s \o [i \in 1 .. (n - Len(s)) |-> 0]

\* s[i] = v for a 0-based i < size().
VecSet(s, i, v) == [s EXCEPT ![i + 1] = ToTensorIndex(v)]

\* vector::size() and operator[] (0-based).
VecSize(s) == Len(s)

VecAt(s, i) == s[i + 1]

RECURSIVE ConstructFrom(_, _)
ConstructFrom(s, vals) ==
    IF vals = <<>> THEN s
    ELSE ConstructFrom(VecPushBack(s, Head(vals)), Tail(vals))

RECURSIVE DedupFrom(_, _)
DedupFrom(s, vals) ==
    IF vals = <<>> THEN s
    ELSE IF \E i \in 1 .. Len(s) : s[i] = ToTensorIndex(Head(vals))
         THEN DedupFrom(s, Tail(vals))
         ELSE DedupFrom(VecPushBack(s, Head(vals)), Tail(vals))

\* A container that keeps each value once, as a set-like type would.
ConstructDedup(vals) == DedupFrom(<<>>, vals)

\* ShapeType{v1, ..., vN}: the elements are copied in, first to last.
Construct(vals) == ConstructFrom(<<>>, vals)

\* Reading a shape back: s[0], ..., s[size()-1].
ReadBack(s) == [i \in 1 .. VecSize(s) |-> VecAt(s, i - 1)]

(* ------------- RangeType = std::pair<TensorIndex, TensorIndex> -------- *)

RangeType == [first : TensorIndex, second : TensorIndex]

\* A constructor that orders its arguments, as a validating range type would.
MakeRangeNormalised(a, b) ==
    IF a <= b THEN [first |-> a, second |-> b] ELSE [first |-> b, second |-> a]

\* RangeType{a, b} / std::make_pair(a, b): a is stored in first, b in second.
MakeRange(a, b) == [first |-> a, second |-> b]

\* Equality of unordered pairs.
RangeEqUnordered(p, q) == {p.first, p.second} = {q.first, q.second}

\* operator== of std::pair: first with first and second with second.
RangeEq(p, q) == p.first = q.first /\ p.second = q.second

(* ------------- TensorMap = std::map<std::string, TensorObject> -------- *)

\* A std::string is its sequence of char codes.
NameId   == <<105, 100>>            \* "id"
NameIds  == <<105, 100, 115>>       \* "ids"
NameMask == <<109, 97, 115, 107>>   \* "mask"
NameCap  == <<73, 100, 115>>        \* "Ids"

\* The tensor names the client uses.
Names == {NameId, NameIds, NameMask, NameCap}

\* struct TensorObject is only declared here; its values are opaque.
TensorObjects == {"tensorA", "tensorB"}

\* std::less<std::string>: lexicographic comparison of the chars, a proper
\* prefix before the longer string.
RECURSIVE StringLess(_, _)
StringLess(a, b) ==
    IF b = <<>> THEN FALSE
    ELSE IF a = <<>> THEN TRUE
    ELSE IF Head(a) < Head(b) THEN TRUE
    ELSE IF Head(b) < Head(a) THEN FALSE
    ELSE StringLess(Tail(a), Tail(b))

\* map::lower_bound(k): position of the first entry whose key is not less
\* than k, Len(m) + 1 for end().
RECURSIVE LowerBoundFrom(_, _, _)
LowerBoundFrom(m, k, i) ==
    IF i > Len(m) THEN i
    ELSE IF StringLess(m[i].key, k) THEN LowerBoundFrom(m, k, i + 1)
    ELSE i

LowerBound(m, k) == LowerBoundFrom(m, k, 1)

\* map::find(k): the position of the entry with an equivalent key (neither
\* less than the other), 0 for end().
MapFind(m, k) ==
    LET i == LowerBound(m, k)
    IN  IF i <= Len(m) /\ ~StringLess(k, m[i].key) THEN i ELSE 0

\* Entry e placed at position i of m.
InsertAt(m, i, e) == SubSeq(m, 1, i - 1) \o <<e>> \o SubSeq(m, i, Len(m))

\* multimap-like insertion: no look-up of an equivalent key.
MapInsertNoCheck(m, k, v) ==
    [map |-> InsertAt(m, LowerBound(m, k), [key |-> k, value |-> v]),
     inserted |-> TRUE]

\* Insertion that keeps arrival order and overwrites nothing.
MapInsertBack(m, k, v) ==
    IF \E i \in 1 .. Len(m) : m[i].key = k
    THEN [map |-> m, inserted |-> FALSE]
    ELSE [map |-> Append(m, [key |-> k, value |-> v]), inserted |-> TRUE]

\* Insertion that overwrites the value of a held key.
MapInsertOverwriting(m, k, v) ==
    LET i == MapFind(m, k)
    IN  IF i # 0 THEN [map |-> [m EXCEPT ![i].value = v], inserted |-> FALSE]
        ELSE [map |-> InsertAt(m, LowerBound(m, k), [key |-> k, value |-> v]),
              inserted |-> TRUE]

\* map::insert({k, v}): when an equivalent key is held the map is left as it
\* is and the call returns false; otherwise the entry goes to its sorted
\* position and the call returns true.
MapInsert(m, k, v) ==
    IF MapFind(m, k) # 0
    THEN [map |-> m, inserted |-> FALSE]
    ELSE [map |-> InsertAt(m, LowerBound(m, k), [key |-> k, value |-> v]),
          inserted |-> TRUE]

\* m[k] = v / map::insert_or_assign(k, v): overwrites the value of a held key.
MapAssign(m, k, v) ==
    LET i == MapFind(m, k)
    IN  IF i # 0 THEN [m EXCEPT ![i].value = v]
        ELSE InsertAt(m, LowerBound(m, k), [key |-> k, value |-> v])

\* for (auto& [k, v] : m): the keys in the order begin() .. end() visits them.
Iterate(m) == [i \in 1 .. Len(m) |-> m[i].key]

(* History of the call sequence: entries by first insertion. *)

HistIndex(h, k) == IF \E i \in 1 .. Len(h) : h[i].key = k
                   THEN CHOOSE i \in 1 .. Len(h) : h[i].key = k
                   ELSE 0

HistInsert(h, k, v) ==
    IF HistIndex(h, k) # 0 THEN h ELSE Append(h, [key |-> k, value |-> v])

HistAssign(h, k, v) ==
    IF HistIndex(h, k) # 0 THEN [h EXCEPT ![HistIndex(h, k)].value = v]
    ELSE Append(h, [key |-> k, value |-> v])

(* ----------------------------- SpecShape ------------------------------ *)

RangeIdle == MakeRange(0, 0)

InitShape ==
    /\ \E vals \in ShapeType :
          /\ shape = Construct(vals)
          /\ args = vals
    /\ lastOp = "construct"
    /\ res = FALSE
    /\ range = RangeIdle
    /\ other = RangeIdle
    /\ tmap = <<>>
    /\ order = <<>>

PushBack(x) ==
    /\ Len(shape) < MaxLen
    /\ shape' = VecPushBack(shape, x)
    /\ lastOp' = "push_back"
    /\ args' = <<x>>
    /\ UNCHANGED <<range, other, tmap, order, res>>

PopBack ==
    /\ Len(shape) > 0
    /\ shape' = VecPopBack(shape)
    /\ lastOp' = "pop_back"
    /\ args' = <<>>
    /\ UNCHANGED <<range, other, tmap, order, res>>

Resize(n) ==
    /\ shape' = VecResize(shape, n)
    /\ lastOp' = "resize"
    /\ args' = <<n>>
    /\ UNCHANGED <<range, other, tmap, order, res>>

SetAt(i, x) ==
    /\ i < VecSize(shape)
    /\ shape' = VecSet(shape, i, x)
    /\ lastOp' = "set"
    /\ args' = <<i, x>>
    /\ UNCHANGED <<range, other, tmap, order, res>>

NextShape ==
    \/ \E x \in WideInt : PushBack(x)
    \/ PopBack
    \/ \E n \in 0 .. MaxLen : Resize(n)
    \/ \E i \in 0 .. (MaxLen - 1), x \in WideInt : SetAt(i, x)

SpecShape == InitShape /\ [][NextShape]_vars

(* ----------------------------- SpecRange ------------------------------ *)

InitRange ==
    /\ \E a \in TensorIndex, b \in TensorIndex :
          /\ range = MakeRange(a, b)
          /\ args = <<a, b>>
    /\ other = RangeIdle
    /\ lastOp = "construct"
    /\ res = FALSE
    /\ shape = <<>>
    /\ tmap = <<>>
    /\ order = <<>>

\* range = RangeType{a, b};
AssignRange(a, b) ==
    /\ range' = MakeRange(a, b)
    /\ lastOp' = "assign"
    /\ args' = <<a, b>>
    /\ res' = FALSE
    /\ UNCHANGED <<other, shape, tmap, order>>

\* other = RangeType{a, b};
AssignOther(a, b) ==
    /\ other' = MakeRange(a, b)
    /\ lastOp' = "assign_other"
    /\ args' = <<a, b>>
    /\ res' = FALSE
    /\ UNCHANGED <<range, shape, tmap, order>>

\* range.first = a;
SetFirst(a) ==
    /\ range' = [range EXCEPT !.first = a]
    /\ lastOp' = "set_first"
    /\ args' = <<a>>
    /\ res' = FALSE
    /\ UNCHANGED <<other, shape, tmap, order>>

\* range.second = b;
SetSecond(b) ==
    /\ range' = [range EXCEPT !.second = b]
    /\ lastOp' = "set_second"
    /\ args' = <<b>>
    /\ res' = FALSE
    /\ UNCHANGED <<other, shape, tmap, order>>

\* range == other
Compare ==
    /\ res' = RangeEq(range, other)
    /\ lastOp' = "compare"
    /\ args' = <<>>
    /\ UNCHANGED <<range, other, shape, tmap, order>>

NextRange ==
    \/ \E a \in TensorIndex, b \in TensorIndex : AssignRange(a, b)
    \/ \E a \in TensorIndex, b \in TensorIndex : AssignOther(a, b)
    \/ \E a \in TensorIndex : SetFirst(a)
    \/ \E b \in TensorIndex : SetSecond(b)
    \/ Compare

SpecRange == InitRange /\ [][NextRange]_vars

(* ------------------------------ SpecMap ------------------------------- *)

\* TensorMap m;  default construction leaves the map empty.
InitMap ==
    /\ tmap = <<>>
    /\ order = <<>>
    /\ lastOp = "construct"
    /\ args = <<>>
    /\ res = FALSE
    /\ shape = <<>>
    /\ range = RangeIdle
    /\ other = RangeIdle

\* m.insert({k, v})
Insert(k, v) ==
    /\ Len(order) < MaxEntries \/ HistIndex(order, k) # 0
    /\ tmap' = MapInsert(tmap, k, v).map
    /\ res' = MapInsert(tmap, k, v).inserted
    /\ order' = HistInsert(order, k, v)
    /\ lastOp' = "insert"
    /\ args' = <<k, v>>
    /\ UNCHANGED <<shape, range, other>>

\* m[k] = v
Assign(k, v) ==
    /\ Len(order) < MaxEntries \/ HistIndex(order, k) # 0
    /\ tmap' = MapAssign(tmap, k, v)
    /\ res' = FALSE
    /\ order' = HistAssign(order, k, v)
    /\ lastOp' = "assign"
    /\ args' = <<k, v>>
    /\ UNCHANGED <<shape, range, other>>

\* m.find(k) != m.end()
Find(k) ==
    /\ res' = (MapFind(tmap, k) # 0)
    /\ lastOp' = "find"
    /\ args' = <<k>>
    /\ UNCHANGED <<tmap, order, shape, range, other>>

NextMap ==
    \/ \E k \in Names, v \in TensorObjects : Insert(k, v)
    \/ \E k \in Names, v \in TensorObjects : Assign(k, v)
    \/ \E k \in Names : Find(k)

SpecMap == InitMap /\ [][NextMap]_vars

(* ======================= properties of ShapeType ====================== *)

\* C1: a shape constructed from N index values reads back as exactly those
\* N values, in the same order.
ShapeRoundTrip ==
    lastOp = "construct" =>
        /\ VecSize(shape) = Len(args)
        /\ ReadBack(shape) = args

\* A shape built from three values with a repeated one, read back whole.
ShapeRoundTripWitness ==
    /\ lastOp = "construct"
    /\ Len(args) = 3
    /\ args[1] = args[3]
    /\ args[1] # args[2]
    /\ ReadBack(shape) = args

\* Operations that grow or shrink a shape at its end.
EndOps == {"push_back", "pop_back", "resize"}

ShapeTypeOK ==
    /\ Len(shape) \in 0 .. MaxLen
    /\ \A i \in 1 .. Len(shape) : shape[i] \in TensorIndex

MinLen(s, t) == IF Len(s) <= Len(t) THEN Len(s) ELSE Len(t)

\* C3: every element of a shape is a TensorIndex value, the length is any
\* number from 0 up, and push_back, pop_back and resize leave the elements
\* that remain before the end as they were, in their order.
ShapeOrderedResizable ==
    [][/\ ShapeTypeOK
       /\ ShapeTypeOK'
       /\ lastOp' \in EndOps =>
             \A i \in 1 .. MinLen(shape, shape') : shape'[i] = shape[i]]_vars

\* A shape grown at the end by resize: a held first element, a zero added.
ShapeOrderedResizableWitness ==
    /\ lastOp = "resize"
    /\ args = <<2>>
    /\ Len(shape) = 2
    /\ shape[1] # 0
    /\ shape[2] = 0

\* C5: TensorIndex is signed and has exactly the values of cudf::size_type:
\* a stored index converts to size_type unchanged, and a size_type value
\* stored as an index is kept unchanged.
IndexMatchesSizeType ==
    /\ TensorIndexMin < 0
    /\ TensorIndex = CudfSizeType
    /\ \A i \in 1 .. Len(shape) : ToSizeType(shape[i]) = shape[i]
    /\ (lastOp = "push_back" /\ args[1] \in CudfSizeType) =>
           VecAt(shape, VecSize(shape) - 1) = args[1]

\* The largest size_type value was pushed and is held as the last entry.
IndexMatchesSizeTypeWitness ==
    /\ lastOp = "push_back"
    /\ args[1] = Pow2(SizeTypeBits - 1) - 1
    /\ VecAt(shape, VecSize(shape) - 1) = args[1]

\* C7: a shape constructed with negative entries holds them unchanged; the
\* entries are all non-negative exactly when the values passed in were.
ShapeNegativeKept ==
    lastOp = "construct" =>
        /\ VecSize(shape) = Len(args)
        /\ \A i \in 1 .. Len(args) :
              args[i] < 0 => VecAt(shape, i - 1) = args[i]
        /\ (\A i \in 1 .. VecSize(shape) : VecAt(shape, i - 1) >= 0)
              <=> (\A i \in 1 .. Len(args) : args[i] >= 0)

\* A constructed shape holding a negative entry.
ShapeNegativeKeptWitness ==
    /\ lastOp = "construct"
    /\ \E i \in 1 .. VecSize(shape) : VecAt(shape, i - 1) < 0

(* ======================= properties of RangeType ====================== *)

\* C4: a range has exactly the components first and second, both index
\* values, and comparing (a, b) with (b, a) for a # b finds them different.
RangeOrderedPair ==
    /\ DOMAIN range = {"first", "second"}
    /\ range.first \in TensorIndex
    /\ range.second \in TensorIndex
    /\ (/\ lastOp = "compare"
        /\ other = MakeRange(range.second, range.first)
        /\ range.first # range.second) => res = FALSE

\* (a, b) was compared with (b, a), a # b, and found different.
RangeOrderedPairWitness ==
    /\ lastOp = "compare"
    /\ other.first = range.second
    /\ other.second = range.first
    /\ range.first # range.second
    /\ res = FALSE

\* C6: constructing a range stores the two values as given, whatever their
\* order, and every pair of index values is a range.
RangeNotValidated ==
    /\ lastOp \in {"construct", "assign"} =>
          /\ range.first = args[1]
          /\ range.second = args[2]
    /\ \A r \in RangeType :
          \E a \in TensorIndex, b \in TensorIndex : MakeRange(a, b) = r

\* A range whose first element exceeds its second was constructed.
RangeNotValidatedWitness ==
    /\ lastOp = "assign"
    /\ args[1] > args[2]
    /\ range.first > range.second

(* ======================= properties of TensorMap ====================== *)

KeysOf(h) == [i \in 1 .. Len(h) |-> h[i].key]

Held(h) == {h[i] : i \in 1 .. Len(h)}

\* C2: the map holds at most one entry per key, finds exactly the keys that
\* were inserted, and iteration visits every held entry exactly once.
TensorMapKeyUnique ==
    /\ \A i, j \in 1 .. Len(tmap) : i # j => tmap[i].key # tmap[j].key
    /\ \A k \in Names : (MapFind(tmap, k) # 0) <=> (HistIndex(order, k) # 0)
    /\ lastOp = "find" => (res <=> HistIndex(order, args[1]) # 0)
    /\ Len(Iterate(tmap)) = Len(order)
    /\ \A e \in Held(order) :
          Cardinality({p \in 1 .. Len(tmap) : Iterate(tmap)[p] = e.key}) = 1

\* The same name was inserted again into a map of two entries.
TensorMapKeyUniqueWitness ==
    /\ lastOp = "insert"
    /\ Len(tmap) = 2
    /\ HistIndex(order, args[1]) = 1
    /\ res = FALSE

\* C8, as claimed: no check enforces key uniqueness, so no insertion is
\* ever refused.
InsertNeverRefused == lastOp = "insert" => res = TRUE

\* C8, amended: the map itself enforces key uniqueness; an insert of a name
\* already held is refused and leaves the map as it was.
InsertRejectsHeldKey ==
    [][(lastOp' = "insert" /\ MapFind(tmap, args'[1]) # 0) =>
          (tmap' = tmap /\ res' = FALSE)]_vars

\* A held name was inserted with another tensor, and the held one stayed.
InsertRejectsHeldKeyWitness ==
    /\ lastOp = "insert"
    /\ res = FALSE
    /\ MapFind(tmap, args[1]) # 0
    /\ tmap[MapFind(tmap, args[1])].value # args[2]

\* The entries of S in ascending key order.
RECURSIVE SortedEntries(_)
SortedEntries(S) ==
    IF S = {} THEN <<>>
    ELSE LET e == CHOOSE x \in S : \A y \in S \ {x} : StringLess(x.key, y.key)
         IN  <<e>> \o SortedEntries(S \ {e})

\* C9: iteration is ascending by key and the map depends only on the set of
\* entries held, not on the order they were inserted in.
IterationAscending ==
    /\ \A i \in 1 .. (Len(tmap) - 1) :
          StringLess(Iterate(tmap)[i], Iterate(tmap)[i + 1])
    /\ tmap = SortedEntries(Held(order))

\* Three names inserted in an order that iteration does not follow.
IterationAscendingWitness ==
    /\ Len(order) = 3
    /\ KeysOf(order) # Iterate(tmap)
    /\ KeysOf(order)[1] = NameMask
    /\ Iterate(tmap)[1] = NameCap

=============================================================================
